---- MODULE Spec2Model ----
(***************************************************************************)
(* A model of the KiCad panelizer (src/panelizer.py, with the older        *)
(* revision src/panelizer7.py beside it).  One run of main() is a          *)
(* sequential pipeline: validate the arguments, load the board, solve the  *)
(* grid, duplicate the items, rebuild the outline, add the score lines,    *)
(* annotate the rails, save.  pc is main()'s position in that pipeline.    *)
(*                                                                         *)
(* Lengths are integers in internal units (1 mm = SCALE units).  The code  *)
(* computes in Python floats; every float it forms is a multiple of 1/2,   *)
(* so the model computes the doubled value exactly and applies int() as a  *)
(* division by two that truncates toward zero.                             *)
(* Texts are sequences of string fragments (their concatenation is the     *)
(* text); the empty text is << >>.                                         *)
(***************************************************************************)
EXTENDS Integers, Sequences, FiniteSets, TLC

VARIABLES
    args,           \* the parsed command line (argparse namespace)
    source,         \* the document stored under args.sourceBoardFile
    pc,             \* position of main()
    board,          \* the in-memory document
    num_x, num_y,   \* grid counts (locals of main)
    board_width, board_height,      \* cell size: bounding box plus padding
    array_center, array_width, array_height,
    panel_center, panel_width, panel_height,
    v_scores,       \* add_vscores' list of planned score lines
    vscore_bottom,  \* add_vscores' return value
    title_text,     \* get_title_text's result
    saved,          \* the board.Save calls made so far: their paths
    stdout,         \* the messages printed so far
    exit_status     \* the status handed to sys.exit, or NoExit

vars == <<args, source, pc, board, num_x, num_y, board_width, board_height,
          array_center, array_width, array_height,
          panel_center, panel_width, panel_height,
          v_scores, vscore_bottom, title_text, saved, stdout, exit_status>>

---------------------------------------------------------------------------
(* Program constants *)

SCALE == 1000000

V_SCORE_TEXT_SIZE == 2

MIN_PANEL_SIZE_MM == 70

MIN_RAIL_WIDTH_FOR_TEXT == 2

(* Bounds of the model *)

\* explicit counts --numx/--numy range over None and -1..MaxNum
MaxNum == 3

\* envelope sizes --panelx/--panely range over None and 0..MaxPanel (mm)
MaxPanel == 4

\* rail widths --hrail/--vrail range over 0..MaxRail (mm)
MaxRail == 2

---------------------------------------------------------------------------
(* Python values *)

\* an optional value: None is << >>, a present value v is <<v>>
None == << >>

Some(v) == <<v>>

\* truth value of an optional int: None and 0 are false
TruthyInt(o) == o # None /\ o[1] # 0

\* truth value of an optional text: None and the empty text are false
TruthyStr(o) == o # None /\ o[1] # << >>

Abs(n) == IF n < 0 THEN -n ELSE n

\* int(a / b) for integers a, b with b # 0: the quotient truncated toward zero
TruncDiv(a, b) ==
    LET q == Abs(a) \div Abs(b)
    IN  IF (a < 0) # (b < 0) THEN -q ELSE q

\* int(h / 2) for a doubled value h: a float with fraction 0 or 1/2, truncated
IntOfHalves(h) == TruncDiv(h, 2)

Min(S) == CHOOSE m \in S : \A n \in S : m <= n

Max(S) == CHOOSE m \in S : \A n \in S : m >= n

\* str(n) for a non-negative integer, as digit fragments
RECURSIVE NatToText(_)
NatToText(n) ==
    LET d == <<"0", "1", "2", "3", "4", "5", "6", "7", "8", "9">>[(n % 10) + 1]
    IN  IF n < 10 THEN <<d>> ELSE NatToText(n \div 10) \o <<d>>

\* str(n) for an integer
IntToText(n) == IF n < 0 THEN <<"-">> \o NatToText(-n) ELSE NatToText(n)

NoExit == "running"

---------------------------------------------------------------------------
(* The document collaborator (pcbnew): items, board, bounding box *)

EdgeCuts == "Edge.Cuts"

UserComments == "User.Comments"

F_SilkS == "F.SilkS"

\* the layer names get_layertable finds on the board
LayerNames == {EdgeCuts, UserComments, F_SilkS, "Eco1.User", "F.Cu"}

\* pcbnew.VECTOR2I(x, y)
VECTOR2I(x, y) == <<x, y>>

Track(net, start, end) == [net |-> net, layer |-> "F.Cu", start |-> start, end |-> end]

\* pcbnew.PCB_SHAPE: a straight edge (or a rectangle given by a diagonal)
Shape(layer, start, end) ==
    [type |-> "shape", layer |-> layer, start |-> start, end |-> end,
     text |-> << >>, size |-> 0, angle |-> 0, justify |-> "none"]

\* pcbnew.PCB_TEXT: anchored at start (= end)
Text(layer, pos, text, size, angle, justify) ==
    [type |-> "text", layer |-> layer, start |-> pos, end |-> pos,
     text |-> text, size |-> size, angle |-> angle, justify |-> justify]

Footprint(ref, pos) == [ref |-> ref, pos |-> pos]

Zone(net, pos) == [net |-> net, layer |-> "F.Cu", pos |-> pos]

TitleBlock(title, revision, date, company) ==
    [title |-> title, revision |-> revision, date |-> date, company |-> company]

\* the document before pcbnew.LoadBoard has run
NoBoard ==
    [tracks |-> << >>, drawings |-> << >>, footprints |-> << >>, zones |-> << >>,
     title_block |-> TitleBlock(<< >>, << >>, << >>, << >>)]

\* item.Move(VECTOR2I(dx, dy)) for tracks and drawings: a relative translation
Move(item, dx, dy) ==
    [item EXCEPT !.start = VECTOR2I(item.start[1] + dx, item.start[2] + dy),
                 !.end = VECTOR2I(item.end[1] + dx, item.end[2] + dy)]

\* zone.Move(VECTOR2I(dx, dy))
MoveZone(zone, dx, dy) ==
    [zone EXCEPT !.pos = VECTOR2I(zone.pos[1] + dx, zone.pos[2] + dy)]

\* module.SetPosition(p): an absolute position
SetPosition(module, p) == [module EXCEPT !.pos = p]

\* drawing.IsOnLayer(layer)
IsOnLayer(drawing, layer) == drawing.layer = layer

\* board.GetBoardEdgesBoundingBox(): the box around the drawings on Edge.Cuts
\* (an empty box at the origin when there are none)
GetBoardEdgesBoundingBox(b) ==
    LET E  == {i \in DOMAIN b.drawings : IsOnLayer(b.drawings[i], EdgeCuts)}
        xs == UNION {{b.drawings[i].start[1], b.drawings[i].end[1]} : i \in E}
        ys == UNION {{b.drawings[i].start[2], b.drawings[i].end[2]} : i \in E}
    IN  IF E = {} THEN [x |-> 0, y |-> 0, w |-> 0, h |-> 0]
        ELSE [x |-> Min(xs), y |-> Min(ys),
              w |-> Max(xs) - Min(xs), h |-> Max(ys) - Min(ys)]

\* bbox.GetCenter(): the origin plus half the size, in integers
GetCenter(bbox) == VECTOR2I(bbox.x + bbox.w \div 2, bbox.y + bbox.h \div 2)

---------------------------------------------------------------------------
(* validate_args *)

\* source_file.endswith(".kicad_pcb"); a file name is <<root, extension>>
IsKicadPcb(file) == file[2] = ".kicad_pcb"

\* a faulty variant of the check below: the vertical rail is not checked
RailTextTooNarrow_h_only(a) ==
    (TruthyStr(a.hrailtext) \/ a.htitle) /\ a.hrail < MIN_RAIL_WIDTH_FOR_TEXT

\* a faulty variant of the check below: the title flags are not checked
RailTextTooNarrow_text_only(a) ==
    \/ TruthyStr(a.hrailtext) /\ a.hrail < MIN_RAIL_WIDTH_FOR_TEXT
    \/ TruthyStr(a.vrailtext) /\ a.vrail < MIN_RAIL_WIDTH_FOR_TEXT

\* rail text or title requested on a rail narrower than the minimum
RailTextTooNarrow(a) ==
    \/ (TruthyStr(a.hrailtext) \/ a.htitle) /\ a.hrail < MIN_RAIL_WIDTH_FOR_TEXT
    \/ (TruthyStr(a.vrailtext) \/ a.vtitle) /\ a.vrail < MIN_RAIL_WIDTH_FOR_TEXT

\* (args.panelx or args.panely) and (args.numx or args.numy)
ConflictingModes(a) ==
    /\ TruthyInt(a.panelx) \/ TruthyInt(a.panely)
    /\ TruthyInt(a.numx) \/ TruthyInt(a.numy)

\* (not args.panelx or not args.panely) and (not args.numx or not args.numy)
NoCompleteMode(a) ==
    /\ ~TruthyInt(a.panelx) \/ ~TruthyInt(a.panely)
    /\ ~TruthyInt(a.numx) \/ ~TruthyInt(a.numy)

MsgNotKicadPcb == "is not a *.kicad_pcb file. Quitting."

MsgRailWidth == "Rail width must be at least 2mm if using rail text. Quitting."

MsgNotBoth == "Specify number of boards or size of panel, not both. Quitting."

MsgNoMode == "Specify number of boards or size of panel. Quitting."

MsgBothRails == "Warning: do you really want both edge rails?"

MsgTooSmall == "Panel size is too small for board. Quitting."

MsgUnderMin == "Warning: panel is under 70x70mm"

MsgFit == "You can fit {num_x} x {num_y} boards on the panel"

MsgBoardDims == "Board dimensions"

MsgPanelDims == "Panel dimensions"

\* the message validate_args quits with, "ok" when it returns
validate_args(a) ==
    IF ~IsKicadPcb(a.sourceBoardFile) THEN MsgNotKicadPcb
    ELSE IF RailTextTooNarrow(a) THEN MsgRailWidth
    ELSE IF ConflictingModes(a) THEN MsgNotBoth
    ELSE IF NoCompleteMode(a) THEN MsgNoMode
    ELSE "ok"

\* print(message); sys.exit(1)
Quit(message) ==
    /\ pc' = "exited"
    /\ stdout' = Append(stdout, message)
    /\ exit_status' = 1

Validate ==
    /\ pc = "start"
    /\ IF validate_args(args) = "ok"
       THEN /\ pc' = "validated"
            /\ stdout' = IF args.hrail # 0 /\ args.vrail # 0
                         THEN Append(stdout, MsgBothRails) ELSE stdout
            /\ UNCHANGED exit_status
       ELSE Quit(validate_args(args))
    /\ UNCHANGED <<args, source, board, num_x, num_y, board_width, board_height,
                   array_center, array_width, array_height,
                   panel_center, panel_width, panel_height,
                   v_scores, vscore_bottom, title_text, saved>>

---------------------------------------------------------------------------
(* main: load and solve *)

\* os.path.splitext(source_file)[0] + "_panelized.kicad_pcb"
output_file(a) == <<a.sourceBoardFile[1], "_panelized.kicad_pcb">>

\* pcbnew.LoadBoard, then the cell size: bounding box plus padding
Load ==
    /\ pc = "validated"
    /\ board' = source
    /\ board_width' = GetBoardEdgesBoundingBox(source).w + args.padding * SCALE
    /\ board_height' = GetBoardEdgesBoundingBox(source).h + args.padding * SCALE
    /\ pc' = "loaded"
    /\ UNCHANGED <<args, source, num_x, num_y,
                   array_center, array_width, array_height,
                   panel_center, panel_width, panel_height,
                   v_scores, vscore_bottom, title_text, saved, stdout, exit_status>>

\* a faulty variant of the solver below: the remainder for the quotient
SolveNum_remainder(panel, rail_width, cell) ==
    (panel * SCALE - 2 * rail_width * SCALE) % cell

\* int((panel * SCALE - 2 * rail_width * SCALE) / cell)
SolveNum(panel, rail_width, cell) ==
    TruncDiv(panel * SCALE - 2 * rail_width * SCALE, cell)

\* num_x == 0 or num_y == 0
TooSmall(nx, ny) == nx = 0 \/ ny = 0

\* the count main works with in one axis: computed when the envelope is given
\* (and not 0), else the explicit count
CountOf(panel, num, rail_width, cell) ==
    IF TruthyInt(panel) THEN SolveNum(panel[1], rail_width, cell) ELSE num[1]

Solve ==
    /\ pc = "loaded"
    /\ IF \/ TruthyInt(args.panelx) /\ board_width = 0
          \/ TruthyInt(args.panely) /\ board_height = 0
       THEN \* ZeroDivisionError: the run dies with a traceback
            /\ pc' = "crashed"
            /\ exit_status' = 1
            /\ UNCHANGED <<num_x, num_y, stdout>>
       ELSE /\ num_x' = CountOf(args.panelx, args.numx, args.hrail, board_width)
            /\ num_y' = CountOf(args.panely, args.numy, args.vrail, board_height)
            /\ IF TooSmall(num_x', num_y')
               THEN Quit(MsgTooSmall)
               ELSE pc' = "solved" /\ UNCHANGED <<stdout, exit_status>>
    /\ UNCHANGED <<args, source, board, board_width, board_height,
                   array_center, array_width, array_height,
                   panel_center, panel_width, panel_height,
                   v_scores, vscore_bottom, title_text, saved>>

---------------------------------------------------------------------------
(* main: duplication *)

\* len(range(n))
RangeLen(n) == IF n > 0 THEN n ELSE 0

\* the (x, y) the loops "for x in range(num_x): for y in range(num_y)" visit
GridCells(nx, ny) ==
    [k \in 1..(RangeLen(nx) * RangeLen(ny)) |->
        <<(k - 1) \div RangeLen(ny), (k - 1) % RangeLen(ny)>>]

\* a faulty variant of the test below: "and" for "or", which also skips the
\* whole first column and first row
NotOrigin_and(c) == c[1] # 0 /\ c[2] # 0

\* if x != 0 or y != 0
NotOrigin(c) == c[1] # 0 \/ c[2] # 0

\* the grid indices a copy is made for, in loop order
CopyCells(nx, ny) == SelectSeq(GridCells(nx, ny), NotOrigin)

\* the list new_items: one Copy(source, x, y) per source and copy cell
NewItems(items, nx, ny, Copy(_, _, _)) ==
    LET G == CopyCells(nx, ny)
    IN  [k \in 1..(Len(items) * Len(G)) |->
            Copy(items[((k - 1) \div Len(G)) + 1],
                 G[((k - 1) % Len(G)) + 1][1], G[((k - 1) % Len(G)) + 1][2])]

\* a faulty variant of the function below: every copy is added to the board
\* as soon as it is made, so the items of the first cell are copied again
duplicate_board_items_live(items, nx, ny, bw, bh) ==
    LET Copy(src, x, y) == Move(src, x * bw, y * bh)
        first == NewItems(items, nx, ny, Copy)
    IN  first \o NewItems(SubSeq(first, 1, Min({1, Len(first)})), nx, ny, Copy)

\* duplicate_board_items: source_item.Duplicate() moved by the cell offset
duplicate_board_items(items, nx, ny, bw, bh) ==
    LET Copy(src, x, y) == Move(src, x * bw, y * bh)
    IN  NewItems(items, nx, ny, Copy)

\* duplicate_footprints: FOOTPRINT(source) set to the source position plus offset
duplicate_footprints(modules, nx, ny, bw, bh) ==
    LET Copy(src, x, y) ==
            SetPosition(src, VECTOR2I(x * bw + src.pos[1], y * bh + src.pos[2]))
    IN  NewItems(modules, nx, ny, Copy)

\* duplicate_zones: Duplicate(), SetNet(source net), Move by the cell offset
duplicate_zones(zones, nx, ny, bw, bh) ==
    LET Copy(src, x, y) == MoveZone([src EXCEPT !.net = src.net], x * bw, y * bh)
    IN  NewItems(zones, nx, ny, Copy)

DupUnchanged ==
    UNCHANGED <<args, source, num_x, num_y, board_width, board_height,
                array_center, array_width, array_height,
                panel_center, panel_width, panel_height,
                v_scores, vscore_bottom, title_text, saved, stdout, exit_status>>

DuplicateTracks ==
    /\ pc = "solved"
    /\ board' = [board EXCEPT !.tracks =
            @ \o duplicate_board_items(@, num_x, num_y, board_width, board_height)]
    /\ pc' = "tracks_done"
    /\ DupUnchanged

DuplicateDrawings ==
    /\ pc = "tracks_done"
    /\ board' = [board EXCEPT !.drawings =
            @ \o duplicate_board_items(@, num_x, num_y, board_width, board_height)]
    /\ pc' = "drawings_done"
    /\ DupUnchanged

DuplicateFootprints ==
    /\ pc = "drawings_done"
    /\ board' = [board EXCEPT !.footprints =
            @ \o duplicate_footprints(@, num_x, num_y, board_width, board_height)]
    /\ pc' = "footprints_done"
    /\ DupUnchanged

DuplicateZones ==
    /\ pc = "footprints_done"
    /\ board' = [board EXCEPT !.zones =
            @ \o duplicate_zones(@, num_x, num_y, board_width, board_height)]
    /\ pc' = "duplicated"
    /\ DupUnchanged

---------------------------------------------------------------------------
(* main: the panel outline *)

\* create_edge_cut: a PCB_SHAPE from int(start) to int(end); the coordinates
\* come in doubled
create_edge_cut(start_x2, start_y2, end_x2, end_y2, layer) ==
    Shape(layer, VECTOR2I(IntOfHalves(start_x2), IntOfHalves(start_y2)),
                 VECTOR2I(IntOfHalves(end_x2), IntOfHalves(end_y2)))

\* create_panel_outline's corner coordinates, doubled:
\* left = array_center.x - array_width / 2 - h_rail_width * SCALE - padding / 2 * SCALE
PanelLeft2(center, width, h_rail_width, padding) ==
    2 * center[1] - width - 2 * h_rail_width * SCALE - padding * SCALE

PanelRight2(center, width, h_rail_width, padding) ==
    2 * center[1] + width + 2 * h_rail_width * SCALE + padding * SCALE

PanelTop2(center, height, v_rail_width, padding) ==
    2 * center[2] - height - 2 * v_rail_width * SCALE - padding * SCALE

PanelBottom2(center, height, v_rail_width, padding) ==
    2 * center[2] + height + 2 * v_rail_width * SCALE + padding * SCALE

\* create_panel_outline: the four edges it adds, in the order top, right,
\* bottom, left
create_panel_outline(center, width, height, h_rail_width, v_rail_width, padding, layer) ==
    LET left   == PanelLeft2(center, width, h_rail_width, padding)
        right  == PanelRight2(center, width, h_rail_width, padding)
        top    == PanelTop2(center, height, v_rail_width, padding)
        bottom == PanelBottom2(center, height, v_rail_width, padding)
    IN  << create_edge_cut(left, top, right, top, layer),
           create_edge_cut(right, top, right, bottom, layer),
           create_edge_cut(right, bottom, left, bottom, layer),
           create_edge_cut(left, bottom, left, top, layer) >>

\* a faulty variant of the test below: the silkscreen layer is tested
NotOnEdgeCuts_wrong_layer(drawing) == ~IsOnLayer(drawing, F_SilkS)

\* the drawings the erasure keeps: "if drawing.IsOnLayer(Edge.Cuts)" deletes
NotOnEdgeCuts(drawing) == ~IsOnLayer(drawing, EdgeCuts)

\* the array's dimensions, the erasure of the existing edge cuts, the new
\* outline and the final panel dimensions
RebuildOutline ==
    /\ pc = "duplicated"
    /\ array_width' = GetBoardEdgesBoundingBox(board).w
    /\ array_height' = GetBoardEdgesBoundingBox(board).h
    /\ array_center' = GetCenter(GetBoardEdgesBoundingBox(board))
    /\ board' = [board EXCEPT !.drawings =
            SelectSeq(@, NotOnEdgeCuts)
            \o create_panel_outline(array_center', array_width', array_height',
                                    args.hrail, args.vrail, args.padding, EdgeCuts)]
    /\ panel_width' = GetBoardEdgesBoundingBox(board').w
    /\ panel_height' = GetBoardEdgesBoundingBox(board').h
    /\ panel_center' = array_center'
    /\ pc' = "outlined"
    /\ UNCHANGED <<args, source, num_x, num_y, board_width, board_height,
                   v_scores, vscore_bottom, title_text, saved, stdout, exit_status>>

---------------------------------------------------------------------------
(* add_vscores *)

\* vscore_extend * SCALE; --vscoreextends is kept in hundredths of a mm
ExtendUnits(a) == a.vscoreextends * (SCALE \div 100)

\* a faulty variant of the range below: the edges are always included
ScoreRange_with_edges(rail_width, n) == [i \in 1..RangeLen(n + 1) |-> i - 1]

\* range(0, n + 1) when the rail is present, range(1, n) when it is not
ScoreRange(rail_width, n) ==
    IF rail_width > 0
    THEN [i \in 1..RangeLen(n + 1) |-> i - 1]
    ELSE [i \in 1..RangeLen(n - 1) |-> i]

\* int(center - size / 2 - extend), int(center + size / 2 + extend)
ScoreLow(center, size, extend) == IntOfHalves(2 * center - size - 2 * extend)

ScoreHigh(center, size, extend) == IntOfHalves(2 * center + size + 2 * extend)

\* int(center - size / 2 + rail_width * SCALE + cell * i)
ScoreLoc(center, size, rail_width, cell, i) ==
    IntOfHalves(2 * center - size + 2 * rail_width * SCALE + 2 * cell * i)

\* create_vscore_line
create_vscore_line(start_x, start_y, end_x, end_y, layer) ==
    Shape(layer, VECTOR2I(start_x, start_y), VECTOR2I(end_x, end_y))

\* create_vscore_text
create_vscore_text(text, pos_x, pos_y, angle, justify, layer) ==
    Text(layer, VECTOR2I(pos_x, pos_y), text, SCALE * V_SCORE_TEXT_SIZE, angle, justify)

\* the vertical score lines of add_vscores, in loop order
VerticalScores(a, pcx, pcy, pw, ph, bw, nx) ==
    LET top    == ScoreLow(pcy, ph, ExtendUnits(a))
        bottom == ScoreHigh(pcy, ph, ExtendUnits(a))
        r      == ScoreRange(a.hrail, nx)
    IN  [k \in DOMAIN r |->
            create_vscore_line(ScoreLoc(pcx, pw, a.hrail, bw, r[k]), top,
                               ScoreLoc(pcx, pw, a.hrail, bw, r[k]), bottom,
                               a.vscorelayer)]

\* their labels
VerticalLabels(a, pcx, pcy, pw, ph, bw, nx) ==
    LET top == ScoreLow(pcy, ph, ExtendUnits(a))
        r   == ScoreRange(a.hrail, nx)
    IN  [k \in DOMAIN r |->
            create_vscore_text(a.vscoretext, ScoreLoc(pcx, pw, a.hrail, bw, r[k]),
                               top - V_SCORE_TEXT_SIZE * SCALE, 900, "left",
                               a.vscoretextlayer)]

\* the horizontal score lines, in loop order
HorizontalScores(a, pcx, pcy, pw, ph, bh, ny) ==
    LET left  == ScoreLow(pcx, pw, ExtendUnits(a))
        right == ScoreHigh(pcx, pw, ExtendUnits(a))
        r     == ScoreRange(a.vrail, ny)
    IN  [k \in DOMAIN r |->
            create_vscore_line(left, ScoreLoc(pcy, ph, a.vrail, bh, r[k]),
                               right, ScoreLoc(pcy, ph, a.vrail, bh, r[k]),
                               a.vscorelayer)]

HorizontalLabels(a, pcx, pcy, pw, ph, bh, ny) ==
    LET left == ScoreLow(pcx, pw, ExtendUnits(a))
        r    == ScoreRange(a.vrail, ny)
    IN  [k \in DOMAIN r |->
            create_vscore_text(a.vscoretext, left - V_SCORE_TEXT_SIZE * SCALE,
                               ScoreLoc(pcy, ph, a.vrail, bh, r[k]), 0, "right",
                               a.vscoretextlayer)]

VscoreUnchanged ==
    UNCHANGED <<args, source, num_x, num_y, board_width, board_height,
                array_center, array_width, array_height,
                panel_center, panel_width, panel_height,
                title_text, saved, stdout, exit_status>>

\* the two planning loops: every line goes to v_scores, every label to the board
PlanVscores ==
    /\ pc = "outlined"
    /\ v_scores' =
            VerticalScores(args, panel_center[1], panel_center[2], panel_width,
                           panel_height, board_width, num_x)
            \o HorizontalScores(args, panel_center[1], panel_center[2], panel_width,
                                panel_height, board_height, num_y)
    /\ board' = [board EXCEPT !.drawings = @
            \o VerticalLabels(args, panel_center[1], panel_center[2], panel_width,
                              panel_height, board_width, num_x)
            \o HorizontalLabels(args, panel_center[1], panel_center[2], panel_width,
                                panel_height, board_height, num_y)]
    /\ pc' = "planned"
    /\ UNCHANGED vscore_bottom
    /\ VscoreUnchanged

\* vscore.SetLayer(layer)
SetLayer(item, layer) == [item EXCEPT !.layer = layer]

\* every score line is put on Edge.Cuts and added to the board
StageVscores ==
    /\ pc = "planned"
    /\ v_scores' = [k \in DOMAIN v_scores |-> SetLayer(v_scores[k], EdgeCuts)]
    /\ board' = [board EXCEPT !.drawings = @ \o v_scores']
    /\ pc' = "staged"
    /\ UNCHANGED vscore_bottom
    /\ VscoreUnchanged

\* a faulty variant of the step below: the lines are left on Edge.Cuts
RestoreVscores_skipped ==
    /\ pc = "staged"
    /\ vscore_bottom' = ScoreHigh(panel_center[2], panel_height, ExtendUnits(args))
    /\ pc' = "scored"
    /\ UNCHANGED <<v_scores, board>>
    /\ VscoreUnchanged

\* every score line (the last len(v_scores) drawings of the board) is moved
\* back to its layer; add_vscores returns vscore_bottom
RestoreVscores ==
    /\ pc = "staged"
    /\ v_scores' = [k \in DOMAIN v_scores |-> SetLayer(v_scores[k], args.vscorelayer)]
    /\ board' = [board EXCEPT !.drawings =
            [i \in DOMAIN @ |->
                IF i > Len(@) - Len(v_scores)
                THEN SetLayer(@[i], args.vscorelayer) ELSE @[i]]]
    /\ vscore_bottom' = ScoreHigh(panel_center[2], panel_height, ExtendUnits(args))
    /\ pc' = "scored"
    /\ VscoreUnchanged

---------------------------------------------------------------------------
(* get_title_text; the title-block fields are spelled character by character *)

RevPrefix == <<"R", "e", "v", ".">>

CopyrightPrefix == <<"(", "c", ")">>

\* part.startswith(prefix)
StartsWith(part, prefix) ==
    Len(part) >= Len(prefix) /\ SubSeq(part, 1, Len(prefix)) = prefix

\* the list parts: the non-empty fields in the order title, revision, date,
\* company, the revision as "Rev. <rev>" and the company as "(c) <company>"
TitleParts(tb) ==
    (IF tb.title # << >> THEN <<tb.title>> ELSE << >>)
    \o (IF tb.revision # << >> THEN <<RevPrefix \o <<" ">> \o tb.revision>> ELSE << >>)
    \o (IF tb.date # << >> THEN <<tb.date>> ELSE << >>)
    \o (IF tb.company # << >> THEN <<CopyrightPrefix \o <<" ">> \o tb.company>> ELSE << >>)

\* the separator put before a part that is not the first
Separator(part) ==
    IF StartsWith(part, RevPrefix) THEN <<" ">>
    ELSE IF StartsWith(part, CopyrightPrefix) THEN <<" ">>
    ELSE <<",", " ">>

\* the loop "for part in parts[1:]" from part i on
RECURSIVE JoinParts(_, _, _)
JoinParts(result, parts, i) ==
    IF i > Len(parts) THEN result
    ELSE JoinParts(result \o Separator(parts[i]) \o parts[i], parts, i + 1)

\* a faulty variant of the function below: a single part is dropped
get_title_text_omit_single(tb) ==
    LET parts == TitleParts(tb)
    IN  IF Len(parts) <= 1 THEN << >> ELSE JoinParts(parts[1], parts, 2)

\* get_title_text: no part gives "", one part gives that part, more are joined
get_title_text(tb) ==
    LET parts == TitleParts(tb)
    IN  IF Len(parts) = 0 THEN << >>
        ELSE IF Len(parts) = 1 THEN parts[1]
        ELSE JoinParts(parts[1], parts, 2)

---------------------------------------------------------------------------
(* main: rail text, title, report, save *)

\* add_rail_text: a text on F.SilkS at int(pos), size 1 mm, left-justified;
\* the coordinates come in doubled
add_rail_text(text, pos_x2, pos_y2, angle) ==
    Text(F_SilkS, VECTOR2I(IntOfHalves(pos_x2), IntOfHalves(pos_y2)),
         text, SCALE * 1, angle, "left")

\* the custom text on the horizontal rail
HRailText(a, pcx, pcy, pw, ph) ==
    add_rail_text(a.hrailtext[1], 2 * pcx - pw + a.hrail * SCALE,
                  2 * pcy + ph - 2 * SCALE, 900)

\* the custom text on the vertical rail
VRailText(a, pcx, pcy, pw, ph) ==
    add_rail_text(a.vrailtext[1], 2 * pcx - pw + 2 * SCALE,
                  2 * pcy - ph + a.vrail * SCALE, 0)

\* the title on the horizontal rail
HTitle(a, title, pcx, pcy, pw, ph) ==
    add_rail_text(title, 2 * pcx + pw - a.hrail * SCALE,
                  2 * pcy + ph - 2 * SCALE, 900)

\* the title on the vertical rail
VTitle(a, title, pcx, pcy, pw, ph) ==
    add_rail_text(title, 2 * pcx - pw + 2 * SCALE,
                  2 * pcy + ph - a.vrail * SCALE, 0)

\* the labels main adds to the rails, in the order it adds them
RailLabels(a, title, pcx, pcy, pw, ph) ==
    (IF TruthyStr(a.hrailtext) THEN <<HRailText(a, pcx, pcy, pw, ph)>> ELSE << >>)
    \o (IF TruthyStr(a.vrailtext) THEN <<VRailText(a, pcx, pcy, pw, ph)>> ELSE << >>)
    \o (IF a.htitle THEN <<HTitle(a, title, pcx, pcy, pw, ph)>> ELSE << >>)
    \o (IF a.vtitle THEN <<VTitle(a, title, pcx, pcy, pw, ph)>> ELSE << >>)

Annotate ==
    /\ pc = "scored"
    /\ title_text' = get_title_text(board.title_block)
    /\ board' = [board EXCEPT !.drawings = @
            \o RailLabels(args, title_text', panel_center[1], panel_center[2],
                          panel_width, panel_height)]
    /\ pc' = "annotated"
    /\ UNCHANGED <<args, source, num_x, num_y, board_width, board_height,
                   array_center, array_width, array_height,
                   panel_center, panel_width, panel_height,
                   v_scores, vscore_bottom, saved, stdout, exit_status>>

\* the report text; the raw command line (sys.argv[1:]) is one fragment
ReportText(a, nx, ny) ==
    output_file(a) \o <<" (">> \o IntToText(nx) \o <<"x">> \o IntToText(ny)
    \o <<" panel) generated with:\n./panelizer.py", " ", "sys.argv[1:]">>

\* a faulty variant of the report below: the panel size is compared in
\* internal units with the minimum in mm
Report_unscaled(a, pw, ph) ==
    (IF pw < MIN_PANEL_SIZE_MM \/ ph < MIN_PANEL_SIZE_MM
     THEN <<MsgUnderMin>> ELSE << >>)
    \o (IF TruthyInt(a.panelx) \/ TruthyInt(a.panely) THEN <<MsgFit>> ELSE << >>)
    \o <<MsgBoardDims, MsgPanelDims>>

\* what main prints after saving
Report(a, pw, ph) ==
    (IF pw < MIN_PANEL_SIZE_MM * SCALE \/ ph < MIN_PANEL_SIZE_MM * SCALE
     THEN <<MsgUnderMin>> ELSE << >>)
    \o (IF TruthyInt(a.panelx) \/ TruthyInt(a.panely) THEN <<MsgFit>> ELSE << >>)
    \o <<MsgBoardDims, MsgPanelDims>>

\* the report text is added, the board is saved, the report is printed
SaveOutput ==
    /\ pc = "annotated"
    /\ board' = [board EXCEPT !.drawings = Append(@,
            Text(UserComments, VECTOR2I(panel_center[1], vscore_bottom + 10 * SCALE),
                 ReportText(args, num_x, num_y), SCALE, 0, "center"))]
    /\ saved' = Append(saved, output_file(args))
    /\ stdout' = stdout \o Report(args, panel_width, panel_height)
    /\ exit_status' = 0
    /\ pc' = "done"
    /\ UNCHANGED <<args, source, num_x, num_y, board_width, board_height,
                   array_center, array_width, array_height,
                   panel_center, panel_width, panel_height,
                   v_scores, vscore_bottom, title_text>>

---------------------------------------------------------------------------
(* Inputs *)

\* None or an integer of lo..hi
OptInts(lo, hi) == {None} \cup {Some(v) : v \in lo..hi}

Widget == <<"W", "i", "d", "g", "e", "t">>

Acme == <<"A", "c", "m", "e">>

\* a board whose outline is the rectangle at (x, y) of size w by h, with two
\* tracks, a silkscreen text, two footprints and a zone inside it
BoardAt(x, y, w, h, tb) ==
    [tracks |-> << Track("GND", VECTOR2I(x, y), VECTOR2I(x + w, y)),
                   Track("VCC", VECTOR2I(x, y + h), VECTOR2I(x + w, y + h)) >>,
     drawings |-> << Shape(EdgeCuts, VECTOR2I(x, y), VECTOR2I(x + w, y + h)),
                     Text(F_SilkS, VECTOR2I(x, y), <<"J", "1">>, SCALE, 0, "left") >>,
     footprints |-> << Footprint("R1", VECTOR2I(x, y)),
                       Footprint("C1", VECTOR2I(x + w, y + h)) >>,
     zones |-> << Zone("GND", VECTOR2I(x, y)) >>,
     title_block |-> tb]

\* the board of the main specification: 1 mm by 2 mm at (10 mm, 20 mm)
WidgetBoard ==
    BoardAt(10 * SCALE, 20 * SCALE, 1 * SCALE, 2 * SCALE,
            TitleBlock(Widget, <<"B">>, << >>, Acme))

Files == {<<"board", ".kicad_pcb">>, <<"board", ".kicad_pro">>}

\* <<hrailtext, vrailtext, htitle, vtitle>>
RailTextChoices ==
    { <<None, None, FALSE, FALSE>>,
      <<Some(<<"P", "C", "B">>), None, FALSE, FALSE>>,
      <<None, Some(<<"P", "C", "B">>), FALSE, FALSE>>,
      <<Some(<< >>), None, FALSE, FALSE>>,
      <<None, None, TRUE, FALSE>>,
      <<None, None, FALSE, TRUE>> }

\* the namespace parse_args returns, the options not given here at their defaults
Args(file, numx, numy, panelx, panely, padding, hrail, vrail, texts, extends) ==
    [sourceBoardFile |-> file, numx |-> numx, numy |-> numy, padding |-> padding,
     panelx |-> panelx, panely |-> panely, hrail |-> hrail, vrail |-> vrail,
     hrailtext |-> texts[1], vrailtext |-> texts[2],
     htitle |-> texts[3], vtitle |-> texts[4],
     vscorelayer |-> EdgeCuts, vscoretextlayer |-> UserComments,
     vscoretext |-> <<"V-SCORE">>, vscoreextends |-> extends]

\* main has not started: nothing loaded, nothing printed, nothing saved
InitRun ==
    /\ pc = "start"
    /\ board = NoBoard
    /\ num_x = 0 /\ num_y = 0
    /\ board_width = 0 /\ board_height = 0
    /\ array_center = VECTOR2I(0, 0) /\ array_width = 0 /\ array_height = 0
    /\ panel_center = VECTOR2I(0, 0) /\ panel_width = 0 /\ panel_height = 0
    /\ v_scores = << >>
    /\ vscore_bottom = 0
    /\ title_text = << >>
    /\ saved = << >>
    /\ stdout = << >>
    /\ exit_status = NoExit

\* every command line over the sizing options, the rail widths and the rail
\* texts, with the default padding and score-line options, on the widget board
Init ==
    /\ \E file \in Files, numx, numy \in OptInts(-1, MaxNum),
          panelx, panely \in OptInts(0, MaxPanel),
          hrail, vrail \in 0..MaxRail, texts \in RailTextChoices :
            args = Args(file, numx, numy, panelx, panely, 1, hrail, vrail, texts, -5)
    /\ source = WidgetBoard
    /\ InitRun

Next ==
    \/ Validate
    \/ Load
    \/ Solve
    \/ DuplicateTracks
    \/ DuplicateDrawings
    \/ DuplicateFootprints
    \/ DuplicateZones
    \/ RebuildOutline
    \/ PlanVscores
    \/ StageVscores
    \/ RestoreVscores
    \/ Annotate
    \/ SaveOutput

Spec == Init /\ [][Next]_vars

\* board origins range over -MaxCoord..MaxCoord (internal units)
MaxCoord == 2

\* board widths and heights range over 1..MaxSize (internal units)
MaxSize == 4

\* runs in count mode without rail texts over boards of every small origin
\* and size, odd and even, with and without padding and rails
InitGeometry ==
    /\ \E numx, numy \in {Some(1), Some(2)}, padding, hrail, vrail \in {0, 1} :
            args = Args(<<"board", ".kicad_pcb">>, numx, numy, None, None,
                        padding, hrail, vrail, <<None, None, FALSE, FALSE>>, -5)
    /\ \E x, y \in (0 - MaxCoord)..MaxCoord, w, h \in 1..MaxSize :
            source = BoardAt(x, y, w, h, TitleBlock(Widget, <<"B">>, << >>, Acme))
    /\ InitRun

SpecGeometry == InitGeometry /\ [][Next]_vars

Titles == {<< >>, Widget}

Revisions == {<< >>, <<"B">>}

Dates == {<< >>, <<"2", "0", "2", "4">>, <<"(", "c", ")", "2", "4">>,
          <<"R", "e", "v", ".", "2">>}

Companies == {<< >>, Acme}

\* runs that print the title on both rails, over every title block
InitTitle ==
    /\ args = Args(<<"board", ".kicad_pcb">>, Some(1), Some(1), None, None,
                   1, 2, 2, <<None, None, TRUE, TRUE>>, -5)
    /\ \E title \in Titles, revision \in Revisions, date \in Dates,
          company \in Companies :
            source = BoardAt(10 * SCALE, 20 * SCALE, 1 * SCALE, 2 * SCALE,
                             TitleBlock(title, revision, date, company))
    /\ InitRun

SpecTitle == InitTitle /\ [][Next]_vars

\* board widths and heights (mm) around the recommended minimum panel size
BoardSizes == {1, 35, 70}

\* runs in count mode, counts of 0 included, over every rail width, with and
\* without padding, on boards whose panels lie under, at and over 70 mm
InitAdvisory ==
    /\ \E numx, numy \in {Some(n) : n \in 0..MaxNum}, padding \in {0, 1},
          hrail, vrail \in 0..MaxRail :
            args = Args(<<"board", ".kicad_pcb">>, numx, numy, None, None,
                        padding, hrail, vrail, <<None, None, FALSE, FALSE>>, -5)
    /\ \E w, h \in BoardSizes :
            source = BoardAt(10 * SCALE, 20 * SCALE, w * SCALE, h * SCALE,
                             TitleBlock(Widget, <<"B">>, << >>, Acme))
    /\ InitRun

\* main is sequential and each of its loops is bounded, so a stage that can
\* run does run
SpecAdvisory == InitAdvisory /\ [][Next]_vars /\ WF_vars(Next)

\* the layers --vscorelayer ranges over: the default and a user layer
ScoreLayers == {EdgeCuts, "Eco1.User"}

\* the values of --vscoreextends, in hundredths of a mm: the default -0.05,
\* none, and 0.05
Extends == {-5, 0, 5}

\* runs in count mode over every rail width, score-line layer and extension,
\* with and without padding, on boards left of, at, one internal unit right of
\* and right of the origin, whose width is a whole number of mm or one
\* internal unit more
InitScores ==
    /\ \E numx, numy \in {Some(n) : n \in 1..MaxNum}, padding \in {0, 1},
          hrail, vrail \in 0..MaxRail, layer \in ScoreLayers, extends \in Extends :
            args = [Args(<<"board", ".kicad_pcb">>, numx, numy, None, None,
                         padding, hrail, vrail, <<None, None, FALSE, FALSE>>, extends)
                        EXCEPT !.vscorelayer = layer]
    /\ \E x \in {-10 * SCALE, 0, 1, 10 * SCALE}, w \in {SCALE, SCALE + 1} :
            source = BoardAt(x, 20 * SCALE, w, 2 * SCALE,
                             TitleBlock(Widget, <<"B">>, << >>, Acme))
    /\ InitRun

SpecScores == InitScores /\ [][Next]_vars

---------------------------------------------------------------------------
(* The older revision src/panelizer7.py, from its argument checks to its    *)
(* grid check: the same tests in the same order, each ending the run with   *)
(* print(...) and sys.exit() without an argument.                           *)

\* print(message); sys.exit(): the exit status of a bare sys.exit() is 0
Quit7(message) ==
    /\ pc' = "exited"
    /\ stdout' = Append(stdout, message)
    /\ exit_status' = 0

\* the four argument checks and the warning about both rails
Validate7 ==
    /\ pc = "start"
    /\ IF validate_args(args) = "ok"
       THEN /\ pc' = "validated"
            /\ stdout' = IF args.hrail # 0 /\ args.vrail # 0
                         THEN Append(stdout, MsgBothRails) ELSE stdout
            /\ UNCHANGED exit_status
       ELSE Quit7(validate_args(args))
    /\ UNCHANGED <<args, source, board, num_x, num_y, board_width, board_height,
                   array_center, array_width, array_height,
                   panel_center, panel_width, panel_height,
                   v_scores, vscore_bottom, title_text, saved>>

\* NUM_X, NUM_Y and the check "NUM_X == 0 or NUM_Y == 0"
Solve7 ==
    /\ pc = "loaded"
    /\ IF \/ TruthyInt(args.panelx) /\ board_width = 0
          \/ TruthyInt(args.panely) /\ board_height = 0
       THEN \* ZeroDivisionError: the run dies with a traceback
            /\ pc' = "crashed"
            /\ exit_status' = 1
            /\ UNCHANGED <<num_x, num_y, stdout>>
       ELSE /\ num_x' = CountOf(args.panelx, args.numx, args.hrail, board_width)
            /\ num_y' = CountOf(args.panely, args.numy, args.vrail, board_height)
            /\ IF TooSmall(num_x', num_y')
               THEN Quit7(MsgTooSmall)
               ELSE pc' = "solved" /\ UNCHANGED <<stdout, exit_status>>
    /\ UNCHANGED <<args, source, board, board_width, board_height,
                   array_center, array_width, array_height,
                   panel_center, panel_width, panel_height,
                   v_scores, vscore_bottom, title_text, saved>>

\* every command line as in Init, with the older revision's default padding 0
InitRev7 ==
    /\ \E file \in Files, numx, numy \in OptInts(-1, MaxNum),
          panelx, panely \in OptInts(0, MaxPanel),
          hrail, vrail \in 0..MaxRail, texts \in RailTextChoices :
            args = Args(file, numx, numy, panelx, panely, 0, hrail, vrail, texts, -5)
    /\ source = WidgetBoard
    /\ InitRun

\* the older revision up to its grid check; a run that passes it stays at
\* pc = "solved"
NextRev7 ==
    \/ Validate7
    \/ Load
    \/ Solve7

SpecRev7 == InitRev7 /\ [][NextRev7]_vars

---------------------------------------------------------------------------
(* Properties *)

\* the elements of a sequence
Range(s) == {s[i] : i \in DOMAIN s}

\* the grid indices of [0, nx) x [0, ny) other than (0, 0)
CopyIndices(nx, ny) == ((0..(nx - 1)) \X (0..(ny - 1))) \ {<<0, 0>>}

\* c is s translated by (dx, dy), with everything else of s kept
TrackCopyAt(c, s, dx, dy) ==
    /\ c.net = s.net /\ c.layer = s.layer
    /\ c.start = <<s.start[1] + dx, s.start[2] + dy>>
    /\ c.end = <<s.end[1] + dx, s.end[2] + dy>>

DrawingCopyAt(c, s, dx, dy) ==
    /\ c.type = s.type /\ c.layer = s.layer /\ c.text = s.text
    /\ c.size = s.size /\ c.angle = s.angle /\ c.justify = s.justify
    /\ c.start = <<s.start[1] + dx, s.start[2] + dy>>
    /\ c.end = <<s.end[1] + dx, s.end[2] + dy>>

FootprintCopyAt(c, s, dx, dy) ==
    c.ref = s.ref /\ c.pos = <<s.pos[1] + dx, s.pos[2] + dy>>

ZoneCopyAt(c, s, dx, dy) ==
    /\ c.net = s.net /\ c.layer = s.layer
    /\ c.pos = <<s.pos[1] + dx, s.pos[2] + dy>>

\* the collection now holds the sources src followed by exactly one copy of
\* every source for every grid index but (0, 0), at the source position plus
\* (x * board_width, y * board_height), and nothing else
ExactCopies(src, now, CopyAt(_, _, _, _)) ==
    LET added == (Len(src) + 1)..Len(now)
    IN  /\ Len(now) = Len(src) + Len(src) * (num_x * num_y - 1)
        /\ \A i \in DOMAIN src :
            /\ \A c \in CopyIndices(num_x, num_y) :
                Cardinality({j \in added :
                    CopyAt(now[j], src[i], c[1] * board_width, c[2] * board_height)}) = 1
            /\ ~\E j \in added : CopyAt(now[j], src[i], 0, 0)

\* C1: for num_x >= 1 and num_y >= 1 the duplication stage adds, for every
\* source item of every kind (track, drawing, footprint, zone), exactly
\* num_x * num_y - 1 copies, one per grid index (x, y) other than (0, 0), each
\* at the source position plus (x * board_width, y * board_height); none at
\* offset (0, 0) and none twice.
C1_DuplicationCoversGrid ==
    (pc = "duplicated" /\ num_x >= 1 /\ num_y >= 1) =>
        /\ ExactCopies(source.tracks, board.tracks, TrackCopyAt)
        /\ ExactCopies(source.drawings, board.drawings, DrawingCopyAt)
        /\ ExactCopies(source.footprints, board.footprints, FootprintCopyAt)
        /\ ExactCopies(source.zones, board.zones, ZoneCopyAt)

\* a 3 by 2 grid has been duplicated: five copies of every source item
C1_Witness ==
    /\ pc = "duplicated" /\ num_x = 3 /\ num_y = 2
    /\ Len(board.tracks) = 6 * Len(source.tracks)
    /\ Len(board.footprints) = 6 * Len(source.footprints)

\* the run has passed validate_args
Proceeded == pc \notin {"start", "exited"} \/ board # NoBoard

\* exactly one complete sizing mode is supplied: both envelope values and no
\* count, or both counts and no envelope value
ExactlyOneMode(a) ==
    \/ a.panelx # None /\ a.panely # None /\ a.numx = None /\ a.numy = None
    \/ a.numx # None /\ a.numy # None /\ a.panelx = None /\ a.panely = None

\* C2: validate_args lets a run proceed only when exactly one complete sizing
\* mode is supplied; any panel dimension together with any count, or no
\* complete mode, ends the run with a fatal configuration error, whatever the
\* other flags are.
C2_ModesExclusiveAndExhaustive == Proceeded => ExactlyOneMode(args)

\* the fatal conditions of a run, as far as they can be read off its input
\* and its grid without ambiguity: wrong extension, text or title on a rail
\* under 2 mm, all four sizing options given and not 0, none given, a grid
\* dimension of zero
FatalCondition ==
    \/ args.sourceBoardFile[2] # ".kicad_pcb"
    \/ (args.hrailtext \notin {None, Some(<< >>)} \/ args.htitle) /\ args.hrail < 2
    \/ (args.vrailtext \notin {None, Some(<< >>)} \/ args.vtitle) /\ args.vrail < 2
    \/ \A o \in {args.panelx, args.panely, args.numx, args.numy} :
            o # None /\ o # Some(0)
    \/ \A o \in {args.panelx, args.panely, args.numx, args.numy} : o = None
    \/ pc \notin {"start", "validated", "loaded"} /\ board # NoBoard
       /\ (num_x = 0 \/ num_y = 0)

\* the board has been changed since it was loaded
Mutated == board # NoBoard /\ board # source

\* C3: board.Save runs at most once in a run and never in a run that ends in
\* a fatal error; every fatal check comes before the first duplication or
\* other board mutation, so a run either completes the pipeline and saves one
\* document or saves nothing.
C3_NoPartialOutput ==
    /\ Len(saved) <= 1
    /\ pc \in {"exited", "crashed"} => saved = << >> /\ ~Mutated
    /\ FatalCondition => saved = << >> /\ ~Mutated
    /\ saved # << >> => pc = "done" /\ saved = <<output_file(args)>>
    /\ pc = "done" => Len(saved) = 1

\* a run that was stopped by the grid check, after the board was loaded
C3_Witness ==
    /\ pc = "exited" /\ board = source /\ saved = << >>
    /\ stdout = <<MsgTooSmall>>

\* the run has been through the solver (the board is loaded and main is past
\* the grid check)
Solved == board # NoBoard /\ pc # "loaded"

\* envelope mode: both envelope values are supplied and no count is
EnvelopeMode(a) ==
    a.panelx # None /\ a.panely # None /\ a.numx = None /\ a.numy = None

\* the outcome "Panel size is too small": the message, a fatal exit, no output
TooSmallOutcome ==
    /\ pc = "exited" /\ exit_status # 0
    /\ MsgTooSmall \in Range(stdout)
    /\ saved = << >>

\* C4: in envelope mode, whenever the cell width exceeds the panel_x envelope
\* the solver yields num_x = 0 and the run ends with the fatal "Panel size is
\* too small" outcome and no output document, for every non-negative
\* horizontal rail width; symmetrically for the cell height, panel_y and the
\* vertical rail.
C4_ZeroFitDetected ==
    /\ (Solved /\ EnvelopeMode(args) /\ args.hrail >= 0
            /\ board_width > args.panelx[1] * SCALE)
        => (num_x = 0 /\ TooSmallOutcome)
    /\ (Solved /\ EnvelopeMode(args) /\ args.vrail >= 0
            /\ board_height > args.panely[1] * SCALE)
        => (num_y = 0 /\ TooSmallOutcome)

\* the run is in or past the duplication stage
Duplicating == pc \in {"solved", "tracks_done", "drawings_done", "footprints_done",
                       "duplicated", "outlined", "planned", "staged", "scored",
                       "annotated", "done"}

\* C5: in every run that reaches the duplication stage num_x >= 1 and
\* num_y >= 1, whether the counts were given or computed from the envelope;
\* a run whose count in either axis is not a positive integer stops with a
\* fatal error before duplication.
C5_GridCountsPositive == Duplicating => num_x >= 1 /\ num_y >= 1

\* the planned score lines that run vertically, and those that run horizontally
VerticalLines == {k \in DOMAIN v_scores : v_scores[k].start[1] = v_scores[k].end[1]}

HorizontalLines == {k \in DOMAIN v_scores : v_scores[k].start[2] = v_scores[k].end[2]}

\* the grid indices the claim gives the score lines of one axis
ScoreIndices(rail_width, n) == IF rail_width > 0 THEN 0..n ELSE 1..(n - 1)

\* the score labels on the board
ScoreLabels ==
    {i \in DOMAIN board.drawings :
        board.drawings[i].type = "text" /\ board.drawings[i].text = args.vscoretext}

\* the labels anchored at p
LabelsAt(p) == {i \in ScoreLabels : board.drawings[i].start = p}

\* C6: add_vscores plans exactly num_x + 1 vertical score lines (grid indices
\* 0..num_x) when h_rail_width > 0 and exactly num_x - 1 (indices
\* 1..num_x-1) when h_rail_width = 0, for every num_x >= 1; the same holds
\* for the horizontal lines with v_rail_width and num_y; each planned line
\* gets exactly one label.
C6_ScoreLinesGatedByRail ==
    LET left == GetBoardEdgesBoundingBox(board).x
        top  == GetBoardEdgesBoundingBox(board).y
    IN  /\ (pc = "planned" /\ num_x >= 1) =>
            /\ Cardinality(VerticalLines) =
                    IF args.hrail > 0 THEN num_x + 1 ELSE num_x - 1
            /\ {v_scores[k].start[1] : k \in VerticalLines} =
                    {left + args.hrail * SCALE + i * board_width :
                        i \in ScoreIndices(args.hrail, num_x)}
        /\ (pc = "planned" /\ num_y >= 1) =>
            /\ Cardinality(HorizontalLines) =
                    IF args.vrail > 0 THEN num_y + 1 ELSE num_y - 1
            /\ {v_scores[k].start[2] : k \in HorizontalLines} =
                    {top + args.vrail * SCALE + i * board_height :
                        i \in ScoreIndices(args.vrail, num_y)}
        /\ pc = "planned" =>
            /\ Cardinality(VerticalLines) + Cardinality(HorizontalLines) = Len(v_scores)
            /\ Cardinality(ScoreLabels) = Len(v_scores)
            /\ \A k \in VerticalLines :
                Cardinality(LabelsAt(<<v_scores[k].start[1],
                    v_scores[k].start[2] - V_SCORE_TEXT_SIZE * SCALE>>)) = 1
            /\ \A k \in HorizontalLines :
                Cardinality(LabelsAt(<<v_scores[k].start[1] - V_SCORE_TEXT_SIZE * SCALE,
                    v_scores[k].start[2]>>)) = 1

\* three columns without a horizontal rail give two vertical lines, three
\* rows with a vertical rail give four horizontal lines
C6_Witness ==
    /\ pc = "planned"
    /\ args.hrail = 0 /\ num_x = 3 /\ Cardinality(VerticalLines) = 2
    /\ args.vrail = 2 /\ num_y = 3 /\ Cardinality(HorizontalLines) = 4

\* the envelope sizes (mm) the solver is compared on
EnvelopeSizes == (0 - MaxPanel)..(2 * MaxPanel)

\* the run computed its counts from the envelope
SolvedFromEnvelope ==
    Solved /\ TruthyInt(args.panelx) /\ TruthyInt(args.panely)

\* C7: the solver is monotonic in envelope mode: for a fixed cell size, rail
\* width and padding, panel_x <= panel_x' implies that the num_x computed for
\* panel_x is <= the one computed for panel_x'; likewise num_y for panel_y.
C7_SolveMonotonic ==
    SolvedFromEnvelope =>
        \A p \in EnvelopeSizes :
            /\ p <= args.panelx[1] => SolveNum(p, args.hrail, board_width) <= num_x
            /\ p >= args.panelx[1] => num_x <= SolveNum(p, args.hrail, board_width)
            /\ p <= args.panely[1] => SolveNum(p, args.vrail, board_height) <= num_y
            /\ p >= args.panely[1] => num_y <= SolveNum(p, args.vrail, board_height)

\* a run that fits two columns where a smaller envelope fits fewer
C7_Witness ==
    /\ SolvedFromEnvelope /\ num_x = 2
    /\ \E p \in EnvelopeSizes :
        p < args.panelx[1] /\ SolveNum(p, args.hrail, board_width) < num_x

\* the texts of the source board's drawings
SourceTexts == {source.drawings[i].text : i \in DOMAIN source.drawings}

\* the labels on the silkscreen that main put there: horizontal-rail labels
\* are rotated, vertical-rail labels are not
RailLabelsOnBoard(angle) ==
    {i \in DOMAIN board.drawings :
        /\ board.drawings[i].type = "text"
        /\ board.drawings[i].layer = F_SilkS
        /\ board.drawings[i].angle = angle
        /\ board.drawings[i].text \notin SourceTexts}

\* a custom text or a title is requested for the horizontal / vertical rail
RequestedOnHRail == args.hrailtext \notin {None, Some(<< >>)} \/ args.htitle

RequestedOnVRail == args.vrailtext \notin {None, Some(<< >>)} \/ args.vtitle

ArrayLeft == GetBoardEdgesBoundingBox(source).x

ArrayTop == GetBoardEdgesBoundingBox(source).y

\* the outline stage has run without rails and without padding
PlainOutline ==
    pc = "outlined" /\ args.hrail = 0 /\ args.vrail = 0 /\ args.padding = 0

\* the border create_panel_outline emitted: the box of the Edge.Cuts drawings
Border == GetBoardEdgesBoundingBox(board)

\* C8: for h_rail = 0, v_rail = 0, padding = 0 the border's left, right, top
\* and bottom coincide with the array bounding box's edges and its width and
\* height are array_width and array_height, for every integer array center,
\* width and height.
C8_BorderIsArrayBox ==
    PlainOutline =>
        /\ Border.x = ArrayLeft /\ Border.x + Border.w = ArrayLeft + array_width
        /\ Border.y = ArrayTop /\ Border.y + Border.h = ArrayTop + array_height
        /\ Border.w = array_width /\ Border.h = array_height

\* the title the claim describes: the non-empty fields in the order title,
\* revision, date, company, a space before the revision and the company, a
\* comma and a space before any other part that is not the first
RECURSIVE ExpectedJoin(_, _)
ExpectedJoin(result, fields) ==
    IF fields = << >> THEN result
    ELSE LET f   == Head(fields)
             sep == IF result = << >> THEN << >>
                    ELSE IF f.kind \in {"revision", "company"} THEN <<" ">>
                    ELSE <<",", " ">>
         IN  ExpectedJoin(result \o sep \o f.text, Tail(fields))

ExpectedTitle(tb) ==
    ExpectedJoin(<< >>,
        SelectSeq(<< [kind |-> "title", text |-> tb.title],
                     [kind |-> "revision",
                      text |-> IF tb.revision = << >> THEN << >>
                               ELSE <<"R", "e", "v", ".", " ">> \o tb.revision],
                     [kind |-> "date", text |-> tb.date],
                     [kind |-> "company",
                      text |-> IF tb.company = << >> THEN << >>
                               ELSE <<"(", "c", ")", " ">> \o tb.company] >>,
                  LAMBDA f : f.text # << >>))

\* C9: get_title_text concatenates the non-empty fields in the order title,
\* revision (as "Rev. <rev>"), date, company (as "(c) <company>"), with a
\* single space before a revision or company part and ", " before any other
\* part that is not the first; title "Widget", revision "B", no date, company
\* "Acme" give "Widget Rev. B (c) Acme", and a title alone gives that title.
C9_TitleSynthesis ==
    pc \in {"annotated", "done"} => title_text = ExpectedTitle(board.title_block)

\* the messages of the five fatal checks
FatalMessages == {MsgNotKicadPcb, MsgRailWidth, MsgNotBoth, MsgNoMode, MsgTooSmall}

\* C11: every fatal configuration or geometry error (wrong extension, rail
\* text on a rail that is too narrow, both sizing modes, no sizing mode, panel
\* too small) prints a message and ends the process with a non-zero exit
\* status, before any file is written.
C11_FatalErrorsExitNonZero ==
    /\ FatalCondition => pc \in {"start", "exited"}
    /\ pc = "exited" =>
        /\ stdout # << >> /\ stdout[Len(stdout)] \in FatalMessages
        /\ exit_status \in 1..255
        /\ saved = << >>

\* both rail widths are non-zero
BothRails == args.hrail # 0 /\ args.vrail # 0

\* the final panel is under 70 mm in width or height
UnderMin == panel_width < 70 * SCALE \/ panel_height < 70 * SCALE

\* the run has passed every fatal check
PassedFatalChecks == Duplicating

\* the run has completed the pipeline and saved the output document
Completed == pc = "done" /\ saved = <<output_file(args)>>

\* the warnings are printed in the runs with the condition and in no other
WarningsMatch ==
    /\ PassedFatalChecks => ((MsgBothRails \in Range(stdout)) <=> BothRails)
    /\ ~PassedFatalChecks /\ pc # "validated" /\ pc # "loaded"
        => MsgBothRails \notin Range(stdout)
    /\ pc = "done" => ((MsgUnderMin \in Range(stdout)) <=> UnderMin)
    /\ pc # "done" => MsgUnderMin \notin Range(stdout)
    /\ PassedFatalChecks =>
        IF pc = "done" THEN exit_status = 0 ELSE exit_status = NoExit

OutlineItems == {i \in DOMAIN board.drawings : IsOnLayer(board.drawings[i], EdgeCuts)}

\* d is the straight edge from (x1, y1) to (x2, y2) on the board-outline layer
EdgeFromTo(d, x1, y1, x2, y2) ==
    /\ d.type = "shape" /\ d.layer = EdgeCuts
    /\ d.start = <<x1, y1>> /\ d.end = <<x2, y2>>

\* d is an outline drawing of the source board or a copy of one
SourceOutline(d) ==
    \E i \in DOMAIN source.drawings, x \in 0..Max({num_x, 1}), y \in 0..Max({num_y, 1}) :
        /\ IsOnLayer(source.drawings[i], EdgeCuts)
        /\ DrawingCopyAt(d, source.drawings[i], x * board_width, y * board_height)

AppendedCopies(old, new, src, CopyAt(_, _, _, _)) ==
    /\ Len(new) = Len(old) + Len(src) * Cardinality(CopyIndices(num_x, num_y))
    /\ SubSeq(new, 1, Len(old)) = old
    /\ \A j \in (Len(old) + 1)..Len(new) :
        \E i \in DOMAIN src, c \in CopyIndices(num_x, num_y) :
            CopyAt(new[j], src[i], c[1] * board_width, c[2] * board_height)

\* the source items are where the loaded board had them, unchanged
SourcesKept(b) ==
    /\ SubSeq(b.tracks, 1, Len(source.tracks)) = source.tracks
    /\ SubSeq(b.drawings, 1, Len(source.drawings)) = source.drawings
    /\ SubSeq(b.footprints, 1, Len(source.footprints)) = source.footprints
    /\ SubSeq(b.zones, 1, Len(source.zones)) = source.zones

\* the steps of the duplication stage
DuplicationStep ==
    /\ pc \in {"solved", "tracks_done", "drawings_done", "footprints_done"}
    /\ pc' \in {"tracks_done", "drawings_done", "footprints_done", "duplicated"}

\* C14: within duplicate_board_items, duplicate_footprints and duplicate_zones
\* the copies of a kind are appended to the board only after the full set of
\* copies of that call has been generated: the call copies the items the
\* collection held when it began, no copy is itself a source of further
\* copies, and the source items are neither moved, modified nor removed by
\* the duplication stage.
C14_CopiesAppendedAfterGeneration ==
    [][DuplicationStep =>
        /\ SourcesKept(board) /\ SourcesKept(board')
        /\ pc = "solved" =>
            /\ AppendedCopies(board.tracks, board'.tracks, source.tracks, TrackCopyAt)
            /\ board.tracks = source.tracks
            /\ board' = [board EXCEPT !.tracks = board'.tracks]
        /\ pc = "tracks_done" =>
            /\ AppendedCopies(board.drawings, board'.drawings, source.drawings,
                              DrawingCopyAt)
            /\ board.drawings = source.drawings
            /\ board' = [board EXCEPT !.drawings = board'.drawings]
        /\ pc = "drawings_done" =>
            /\ AppendedCopies(board.footprints, board'.footprints, source.footprints,
                              FootprintCopyAt)
            /\ board.footprints = source.footprints
            /\ board' = [board EXCEPT !.footprints = board'.footprints]
        /\ pc = "footprints_done" =>
            /\ AppendedCopies(board.zones, board'.zones, source.zones, ZoneCopyAt)
            /\ board.zones = source.zones
            /\ board' = [board EXCEPT !.zones = board'.zones]
    ]_vars

\* the drawings of a 2 by 2 grid have been copied, the footprints not yet
C14_Witness ==
    /\ pc = "drawings_done" /\ num_x = 2 /\ num_y = 2
    /\ Len(board.drawings) = 4 * Len(source.drawings)
    /\ SubSeq(board.drawings, 1, Len(source.drawings)) = source.drawings
    /\ board.footprints = source.footprints

\* the drawings of b that are the planned score line v_scores[k], on any layer
InsertedAs(b, k) ==
    {i \in DOMAIN b.drawings :
        /\ b.drawings[i].type = "shape"
        /\ b.drawings[i].start = v_scores[k].start
        /\ b.drawings[i].end = v_scores[k].end}

\* add_vscores has returned
VscoresReturned == pc \in {"scored", "annotated", "done"}

\* from the return of add_vscores on every planned line is on the board once,
\* on the designated layer, and the outline layer holds the border alone
\* unless it is the designated layer
ScoreLinesOnTheirLayer ==
    /\ pc \in {"outlined", "planned"} =>
        \A k \in DOMAIN v_scores : InsertedAs(board, k) = {}
    /\ VscoresReturned =>
        /\ \A k \in DOMAIN v_scores :
            /\ Cardinality(InsertedAs(board, k)) = 1
            /\ \A i \in InsertedAs(board, k) :
                board.drawings[i].layer = args.vscorelayer
            /\ v_scores[k].layer = args.vscorelayer
        /\ Cardinality(OutlineItems) =
            4 + (IF args.vscorelayer = EdgeCuts THEN Len(v_scores) ELSE 0)

\* the step that inserts the score lines
InsertionStep == pc = "planned" /\ pc' = "staged"

\* C15: every score line planned by add_vscores is inserted into the board
\* exactly once, is on the Edge.Cuts layer at the moment it is inserted, and
\* is on the designated score-line layer (--vscorelayer) when add_vscores
\* returns and when the board is saved; no score line is persisted on the
\* outline layer unless the designated layer is the outline layer.
C15_ScoreLinesStaged ==
    /\ []ScoreLinesOnTheirLayer
    /\ [][InsertionStep =>
            /\ Len(board'.drawings) = Len(board.drawings) + Len(v_scores)
            /\ SubSeq(board'.drawings, 1, Len(board.drawings)) = board.drawings
            /\ \A k \in DOMAIN v_scores :
                /\ v_scores[k].layer = args.vscorelayer
                /\ board'.drawings[Len(board.drawings) + k] =
                        [v_scores[k] EXCEPT !.layer = EdgeCuts]
       ]_vars
    /\ [][~InsertionStep =>
            \A k \in DOMAIN v_scores :
                Cardinality(InsertedAs(board', k)) = Cardinality(InsertedAs(board, k))
       ]_vars

\* a saved board with lines on the user layer and none on the outline layer
C15_Witness ==
    /\ pc = "done" /\ args.vscorelayer = "Eco1.User" /\ Len(v_scores) = 4
    /\ Cardinality(OutlineItems) = 4
    /\ \A k \in DOMAIN v_scores : \E i \in InsertedAs(board, k) :
            board.drawings[i].layer = "Eco1.User"

\* --vscoreextends converted to internal units
ExtendInUnits == (args.vscoreextends * SCALE) \div 100

\* C16: every vertical score line runs from panel_top - extend to
\* panel_bottom + extend and every horizontal one from panel_left - extend to
\* panel_right + extend; a negative extend is accepted without error and
\* makes both ends of every line lie strictly inside the panel bounds, the
\* line being 2 * |extend| shorter than the panel dimension, while a positive
\* extend makes both ends lie outside.
C16_ScoreLineSpan ==
    pc = "planned" =>
        LET e == ExtendInUnits
            L == Border.x
            R == Border.x + Border.w
            T == Border.y
            B == Border.y + Border.h
        IN  /\ \A k \in VerticalLines :
                /\ v_scores[k].start[2] = T - e /\ v_scores[k].end[2] = B + e
                /\ e < 0 => /\ T < v_scores[k].start[2] /\ v_scores[k].end[2] < B
                            /\ v_scores[k].end[2] - v_scores[k].start[2]
                                    = panel_height - 2 * Abs(e)
                /\ e > 0 => v_scores[k].start[2] < T /\ B < v_scores[k].end[2]
            /\ \A k \in HorizontalLines :
                /\ v_scores[k].start[1] = L - e /\ v_scores[k].end[1] = R + e
                /\ e < 0 => /\ L < v_scores[k].start[1] /\ v_scores[k].end[1] < R
                            /\ v_scores[k].end[1] - v_scores[k].start[1]
                                    = panel_width - 2 * Abs(e)
                /\ e > 0 => v_scores[k].start[1] < L /\ R < v_scores[k].end[1]

\* the title-block fields of tb that are not empty
NonEmptyFields(tb) ==
    {f \in {"title", "revision", "date", "company"} : tb[f] # << >>}

\* the title stage has run
TitleSynthesized == pc \in {"annotated", "done"}

\* C17: the synthesized title is omitted entirely (empty result) whenever
\* fewer than two of the four metadata fields title, revision, date, company
\* are non-empty.
C17_TitleOmittedUnderTwoFields ==
    (TitleSynthesized /\ Cardinality(NonEmptyFields(board.title_block)) < 2)
        => title_text = << >>

\* C17 (amended): the synthesized title is empty when none of the four
\* fields is non-empty; when exactly one field is non-empty the result is
\* that single part alone, without separator: the title or the date as it
\* is, the revision as "Rev. <rev>", the company as "(c) <company>".
C17_SinglePartIsKept ==
    TitleSynthesized =>
        LET tb == board.title_block
        IN  /\ NonEmptyFields(tb) = {} => title_text = << >>
            /\ NonEmptyFields(tb) = {"title"} => title_text = tb.title
            /\ NonEmptyFields(tb) = {"date"} => title_text = tb.date
            /\ NonEmptyFields(tb) = {"revision"} =>
                    title_text = <<"R", "e", "v", ".", " ">> \o tb.revision
            /\ NonEmptyFields(tb) = {"company"} =>
                    title_text = <<"(", "c", ")", " ">> \o tb.company
            /\ NonEmptyFields(tb) # {} => title_text # << >>

\* a board with a revision only, whose title text is "Rev. B"
C17_Witness ==
    /\ TitleSynthesized
    /\ NonEmptyFields(board.title_block) = {"revision"}
    /\ title_text = <<"R", "e", "v", ".", " ", "B">>

\* the run was sized by the envelope, with non-negative rails, and has built
\* its outline
OutlinedFromEnvelope ==
    /\ pc = "outlined" /\ EnvelopeMode(args)
    /\ args.hrail >= 0 /\ args.vrail >= 0

\* C18: in envelope mode with non-negative rail widths and a rectangular
\* source outline, every run that reaches the outline stage produces a panel
\* whose width array_width + 2 * h_rail * SCALE + padding * SCALE is at most
\* panel_x * SCALE, while one more column would exceed it:
\* (num_x + 1) * cell.width + 2 * h_rail * SCALE > panel_x * SCALE; and
\* symmetrically for the height with panel_y, v_rail and num_y.
C18_PanelFitsEnvelope ==
    OutlinedFromEnvelope =>
        /\ array_width + 2 * args.hrail * SCALE + args.padding * SCALE
                <= args.panelx[1] * SCALE
        /\ panel_width <= args.panelx[1] * SCALE
        /\ (num_x + 1) * board_width + 2 * args.hrail * SCALE > args.panelx[1] * SCALE
        /\ array_height + 2 * args.vrail * SCALE + args.padding * SCALE
                <= args.panely[1] * SCALE
        /\ panel_height <= args.panely[1] * SCALE
        /\ (num_y + 1) * board_height + 2 * args.vrail * SCALE > args.panely[1] * SCALE

\* the bounding box of the source outline, which every copy repeats
SourceBox == GetBoardEdgesBoundingBox(source)

\* the left and right edge of the board copies of column j, the top and
\* bottom edge of those of row j: copy j is the source moved by j cells
ColumnLeft(j) == SourceBox.x + j * board_width

ColumnRight(j) == ColumnLeft(j) + SourceBox.w

RowTop(j) == SourceBox.y + j * board_height

RowBottom(j) == RowTop(j) + SourceBox.h

\* the positions of the planned vertical lines (x) and horizontal lines (y)
VerticalPositions == {v_scores[k].start[1] : k \in VerticalLines}

HorizontalPositions == {v_scores[k].start[2] : k \in HorizontalLines}

\* the position the claim gives the line of index i of each axis
VerticalLineAt(i) == Border.x + args.hrail * SCALE + i * board_width

HorizontalLineAt(i) == Border.y + args.vrail * SCALE + i * board_height

\* C19: for a rectangular source outline, the vertical score line of index i
\* is at x = panel_left + h_rail * SCALE + i * cell.width, which for
\* 1 <= i < num_x lies in the gap between column i-1 and column i at equal
\* distance (padding / 2) from both boards and never inside any board copy's
\* bounding box; for h_rail > 0 the lines of index 0 and num_x lie exactly
\* h_rail * SCALE inside the panel's left and right edges, and all planned
\* lines lie within the panel bounds; symmetrically for the horizontal lines
\* with v_rail, cell.height and num_y.
C19_ScoreLinesOnCellBoundaries ==
    pc = "planned" =>
        /\ VerticalPositions = {VerticalLineAt(i) : i \in ScoreIndices(args.hrail, num_x)}
        /\ \A i \in 1..(num_x - 1) :
            /\ 2 * (VerticalLineAt(i) - ColumnRight(i - 1)) = args.padding * SCALE
            /\ 2 * (ColumnLeft(i) - VerticalLineAt(i)) = args.padding * SCALE
        /\ \A x \in VerticalPositions :
            /\ \A j \in 0..(num_x - 1) : ~(ColumnLeft(j) < x /\ x < ColumnRight(j))
            /\ Border.x <= x /\ x <= Border.x + Border.w
        /\ (args.hrail > 0 /\ num_x >= 1) =>
            /\ VerticalLineAt(0) = Border.x + args.hrail * SCALE
            /\ VerticalLineAt(num_x) = Border.x + Border.w - args.hrail * SCALE
        /\ HorizontalPositions = {HorizontalLineAt(i) : i \in ScoreIndices(args.vrail, num_y)}
        /\ \A i \in 1..(num_y - 1) :
            /\ 2 * (HorizontalLineAt(i) - RowBottom(i - 1)) = args.padding * SCALE
            /\ 2 * (RowTop(i) - HorizontalLineAt(i)) = args.padding * SCALE
        /\ \A y \in HorizontalPositions :
            /\ \A j \in 0..(num_y - 1) : ~(RowTop(j) < y /\ y < RowBottom(j))
            /\ Border.y <= y /\ y <= Border.y + Border.h
        /\ (args.vrail > 0 /\ num_y >= 1) =>
            /\ HorizontalLineAt(0) = Border.y + args.vrail * SCALE
            /\ HorizontalLineAt(num_y) = Border.y + Border.h - args.vrail * SCALE

====
